---- MODULE Spec2Model ----
(***************************************************************************)
(* LINE webhook gateway: one delivery to POST /webhook, from the signature *)
(* check to the HTTP response, with the per-event pipeline of              *)
(* process_event (route, save, notify, forward, reply).                    *)
(*                                                                         *)
(* Python values are modelled as follows.  A str that the code tests for   *)
(* truthiness is a string, None is the string "None" and the empty str is  *)
(* "".  A message text is a record [present, words]: words is the text as  *)
(* a sequence of symbols, and a keyword is a non-empty sequence of symbols *)
(* (`keyword in message_text` is contiguous-subsequence search).  An       *)
(* unhandled exception leaving the webhook handler is HTTP status 500.     *)
(***************************************************************************)
EXTENDS Integers, Sequences, FiniteSets, TLC

VARIABLES
    settings,      \* Settings (config.py), read once, immutable afterwards
    pc,            \* position of the webhook handler
    body,          \* raw request body of the delivery
    signature,     \* X-Line-Signature header (NoSignature when absent)
    status,        \* HTTP status answered (0: not answered yet)
    idx,           \* index in events of the event being processed (0: none)
    route_result,  \* RouteResult of the current event
    saved,         \* outcome of save_conversation for the current event
    notified,      \* outcome of send_notification for the current event
    results,       \* ForwardResults of the current event, in call order
    sent,          \* forward calls of the current event: target, payload, network
    replies,       \* reply_text calls of the current event: token, text, ok
    total,         \* side effects of the whole delivery, counted
    clock,         \* datetime.now() as last read by save_event (0: not read yet)
    conversations, \* rows of the conversations table
    suspended      \* the other delivery in progress: its handler's own state

vars == <<settings, pc, body, signature, status, idx, route_result, saved,
          notified, results, sent, replies, total, clock, conversations,
          suspended>>

----------------------------------------------------------------------------
(* Bounds *)

\* Largest number of events in one delivery.
MaxEvents == 2

\* Largest length of a message text given to the classifier.
MaxTextLen == 3

----------------------------------------------------------------------------
(* Python values *)

None == "None"

\* bool(x) of an optional str
Truthy(x) == x \notin {"None", ""}

NoText == [present |-> FALSE, words |-> <<>>]

Text(ws) == [present |-> TRUE, words |-> ws]

----------------------------------------------------------------------------
(* config.py *)

UNIFIED == "unified"

DELEGATE_OLD == "delegate_old"

DELEGATE_NEW == "delegate_new"

ReplyMode == {UNIFIED, DELEGATE_OLD, DELEGATE_NEW}

\* A str of the configuration is the sequence of its characters; "," is the
\* comma, " " the blank, any other symbol stands for a run of other
\* characters.  The str "" is << >>.

\* old_system_keywords of the running configuration
OldSystemKeywords == <<"invoice", ",", "address">>

\* high_value_keywords of the running configuration
HighValueKeywords == <<"open", "company", ",", "startup">>

Settings ==
    [reply_mode : ReplyMode,
     line_channel_secret : {"", "secret"},
     line_channel_access_token : {"", "token"},
     old_system_webhook_url : {"", "http://old"},
     new_system_webhook_url : {"", "http://new"},
     notify_webhook_url : {"", "http://notify"},
     old_system_keywords : {OldSystemKeywords},
     high_value_keywords : {HighValueKeywords}]

\* str.split(sep): the pieces between the separators, empty ones included
RECURSIVE Split(_, _)
Split(str, sep) ==
    IF \A i \in 1..Len(str) : str[i] # sep
    THEN << str >>
    ELSE LET i == CHOOSE n \in 1..Len(str) :
                     str[n] = sep /\ \A m \in 1..(n - 1) : str[m] # sep
         IN  << SubSeq(str, 1, i - 1) >> \o Split(SubSeq(str, i + 1, Len(str)), sep)

\* str.strip(): without the leading and the trailing blanks
Strip(str) ==
    IF \A i \in 1..Len(str) : str[i] = " "
    THEN << >>
    ELSE LET first == CHOOSE n \in 1..Len(str) :
                         str[n] # " " /\ \A m \in 1..(n - 1) : str[m] = " "
             last == CHOOSE n \in 1..Len(str) :
                        str[n] # " " /\ \A m \in (n + 1)..Len(str) : str[m] = " "
         IN  SubSeq(str, first, last)

\* [k.strip() for k in keywords.split(",") if k.strip()], [] for ""
keywords_list(keywords) ==
    IF keywords = << >>
    THEN << >>
    ELSE LET pieces == Split(keywords, ",")
             stripped == [i \in 1..Len(pieces) |-> Strip(pieces[i])]
         IN  SelectSeq(stripped, LAMBDA k : k # << >>)

\* Settings.old_keywords_list
old_keywords_list(s) == keywords_list(s.old_system_keywords)

\* Settings.high_value_keywords_list
high_value_keywords_list(s) == keywords_list(s.high_value_keywords)

----------------------------------------------------------------------------
(* router.py *)

OLD_SYSTEM == "old_system"

NEW_SYSTEM == "new_system"

BOTH == "both"

RouteTarget == {OLD_SYSTEM, NEW_SYSTEM, BOTH}

\* RouteResult; matched_keyword <<>> is None (a keyword is never empty)
RouteResult(target, reason, is_high_value, matched_keyword) ==
    [target |-> target, reason |-> reason, is_high_value |-> is_high_value,
     matched_keyword |-> matched_keyword]

NoRoute == RouteResult("None", "None", FALSE, <<>>)

\* keyword in message_text
Contains(words, keyword) ==
    \E i \in 1..(Len(words) - Len(keyword) + 1) :
        SubSeq(words, i, i + Len(keyword) - 1) = keyword

\* FirstMatch taking the longest keyword found in the text (the first of
\* the longest ones)
LongestMatch(keywords, words) ==
    IF \E k \in 1..Len(keywords) : Contains(words, keywords[k])
    THEN CHOOSE k \in 1..Len(keywords) :
            /\ Contains(words, keywords[k])
            /\ \A j \in 1..Len(keywords) :
                  Contains(words, keywords[j]) =>
                      \/ Len(keywords[j]) < Len(keywords[k])
                      \/ Len(keywords[j]) = Len(keywords[k]) /\ k <= j
    ELSE 0

\* index of the first keyword of the list found in the text, 0 when none is
FirstMatch(keywords, words) ==
    IF \E k \in 1..Len(keywords) : Contains(words, keywords[k])
    THEN CHOOSE k \in 1..Len(keywords) :
            /\ Contains(words, keywords[k])
            /\ \A j \in 1..(k - 1) : ~Contains(words, keywords[j])
    ELSE 0

\* route looking for a high-value keyword before an old-system keyword
RouteHighValueFirst(s, message_text, message_type) ==
    IF message_type # "text" \/ ~message_text.present
    THEN RouteResult(NEW_SYSTEM, "non_text", FALSE, <<>>)
    ELSE LET o == FirstMatch(old_keywords_list(s), message_text.words)
             h == FirstMatch(high_value_keywords_list(s), message_text.words)
         IN  IF h # 0
             THEN RouteResult(NEW_SYSTEM, "high_value", TRUE,
                              high_value_keywords_list(s)[h])
             ELSE IF o # 0
             THEN RouteResult(OLD_SYSTEM, "old_keyword", FALSE, old_keywords_list(s)[o])
             ELSE RouteResult(NEW_SYSTEM, "default", FALSE, <<>>)

\* route without the test of message_type
RouteAnyType(s, message_text, message_type) ==
    IF ~message_text.present
    THEN RouteResult(NEW_SYSTEM, "non_text", FALSE, <<>>)
    ELSE LET o == FirstMatch(old_keywords_list(s), message_text.words)
             h == FirstMatch(high_value_keywords_list(s), message_text.words)
         IN  IF o # 0
             THEN RouteResult(OLD_SYSTEM, "old_keyword", FALSE, old_keywords_list(s)[o])
             ELSE IF h # 0
             THEN RouteResult(NEW_SYSTEM, "high_value", TRUE,
                              high_value_keywords_list(s)[h])
             ELSE RouteResult(NEW_SYSTEM, "default", FALSE, <<>>)

\* route answering BOTH for a text with an old-system keyword and a
\* high-value keyword
RouteBothWhenBoth(s, message_text, message_type) ==
    IF message_type # "text" \/ ~message_text.present
    THEN RouteResult(NEW_SYSTEM, "non_text", FALSE, <<>>)
    ELSE LET o == FirstMatch(old_keywords_list(s), message_text.words)
             h == FirstMatch(high_value_keywords_list(s), message_text.words)
         IN  IF o # 0 /\ h # 0
             THEN RouteResult(BOTH, "old_keyword", FALSE, old_keywords_list(s)[o])
             ELSE IF o # 0
             THEN RouteResult(OLD_SYSTEM, "old_keyword", FALSE, old_keywords_list(s)[o])
             ELSE IF h # 0
             THEN RouteResult(NEW_SYSTEM, "high_value", TRUE,
                              high_value_keywords_list(s)[h])
             ELSE RouteResult(NEW_SYSTEM, "default", FALSE, <<>>)

\* MessageRouter.route
Route(s, message_text, message_type) ==
    IF message_type # "text" \/ ~message_text.present
    THEN RouteResult(NEW_SYSTEM, "non_text", FALSE, <<>>)
    ELSE LET o == FirstMatch(old_keywords_list(s), message_text.words)
             h == FirstMatch(high_value_keywords_list(s), message_text.words)
         IN  IF o # 0
             THEN RouteResult(OLD_SYSTEM, "old_keyword", FALSE, old_keywords_list(s)[o])
             ELSE IF h # 0
             THEN RouteResult(NEW_SYSTEM, "high_value", TRUE,
                              high_value_keywords_list(s)[h])
             ELSE RouteResult(NEW_SYSTEM, "default", FALSE, <<>>)

----------------------------------------------------------------------------
(* Deliveries *)

\* One event of the events array.
Event(user, mtype, text, token) ==
    [userId |-> user, mtype |-> mtype, text |-> text, replyToken |-> token]

EventPool ==
    { Event("U1", "text", Text(<<"need", "invoice">>), "rt1"),
      Event("U1", "text", Text(<<"open", "company">>), "rt2"),
      Event("U2", "text", Text(<<"hello">>), None),
      Event("U1", "sticker", Text(<<"invoice">>), "rt3") }

SeqsUpTo(S, n) == UNION { [1..k -> S] : k \in 0..n }

\* A raw body: text that is not JSON (json.loads raises JSONDecodeError),
\* bytes that are no text (json.loads raises UnicodeDecodeError), JSON that is
\* not an object, or an object with an events array.
Bodies ==
    { [kind |-> "not_json", events |-> <<>>],
      [kind |-> "not_utf8", events |-> <<>>],
      [kind |-> "json_array", events |-> <<>>] }
    \cup { [kind |-> "object", events |-> es] : es \in SeqsUpTo(EventPool, MaxEvents) }

\* Header(None): the header is absent (or empty), which the handler tests as
\* false
NoSignature == <<>>

\* base64(HMAC-SHA256(key, body))
Hmac(key, b) == <<key, b>>

\* The signature headers a sender can put on body b: none, the platform's,
\* or one made without the channel secret.
Signatures(b) == { NoSignature, Hmac("secret", b), Hmac("guess", b) }

\* verify_signature
verify_signature(b, sig, channel_secret) == sig = Hmac(channel_secret, b)

----------------------------------------------------------------------------
(* forwarder.py *)

NoBody == [kind |-> "None", reply_text |-> None]

\* ForwardResult; status_code 0 is None
ForwardResult(success, target, status_code, response_body, error) ==
    [success |-> success, target |-> target, status_code |-> status_code,
     response_body |-> response_body, error |-> error]

\* What a backend answers when it answers with a reply text.
ReplyTextOf(target) == IF target = OLD_SYSTEM THEN "A" ELSE "B"

\* response.json() of a JSON object d, d.get("reply_text") being t
JsonBody(t) == [kind |-> "dict", reply_text |-> t]

\* response.text when response.json() raised
TextBody == [kind |-> "str", reply_text |-> None]

\* What self.client.post can do for one forward call to a backend.
NetOutcomes(target) ==
    { [kind |-> "response", status_code |-> 200, body |-> JsonBody(ReplyTextOf(target))],
      [kind |-> "response", status_code |-> 200, body |-> JsonBody("")],
      [kind |-> "response", status_code |-> 200, body |-> JsonBody(None)],
      [kind |-> "response", status_code |-> 200, body |-> TextBody],
      [kind |-> "response", status_code |-> 500, body |-> JsonBody(ReplyTextOf(target))],
      [kind |-> "timeout", status_code |-> 0, body |-> NoBody],
      [kind |-> "request_error", status_code |-> 0, body |-> NoBody] }

\* WebhookForwarder._forward, given what the post did
Forward(target, net) ==
    IF net.kind = "response"
    THEN ForwardResult(200 <= net.status_code /\ net.status_code < 300, target,
                       net.status_code, net.body, None)
    ELSE ForwardResult(FALSE, target, 0, NoBody, net.kind)

\* UrlOf falling back on the other backend's URL when its own is not set
UrlOfFallback(s, target) ==
    IF target = OLD_SYSTEM
    THEN IF Truthy(s.old_system_webhook_url)
         THEN s.old_system_webhook_url ELSE s.new_system_webhook_url
    ELSE IF Truthy(s.new_system_webhook_url)
         THEN s.new_system_webhook_url ELSE s.old_system_webhook_url

\* URL of a backend in the settings
UrlOf(s, target) ==
    IF target = OLD_SYSTEM THEN s.old_system_webhook_url ELSE s.new_system_webhook_url

\* forward_to_old_system / forward_to_new_system, given what the post would do
ForwardTo(s, target, net) ==
    IF ~Truthy(UrlOf(s, target))
    THEN ForwardResult(FALSE, target, 0, NoBody, "not_configured")
    ELSE Forward(target, net)

\* Payload made of the one event being processed
PayloadOwnEvent(b, include_reply_token) ==
    IF b.kind # "object" THEN b
    ELSE [b EXCEPT !.events = << b.events[idx] >>]

\* Payload taking the reply tokens out when include_reply_token is false
PayloadStripped(b, include_reply_token) ==
    IF include_reply_token \/ b.kind # "object"
    THEN b
    ELSE [b EXCEPT !.events =
            [i \in DOMAIN b.events |-> [b.events[i] EXCEPT !.replyToken = None]]]

\* content= of the post: the body handed down, whatever include_reply_token is
Payload(b, include_reply_token) == b

Leg(target, include_reply_token) ==
    [target |-> target, include_reply_token |-> include_reply_token]

\* forward_by_route making the old-system call only when the target is BOTH
forward_by_route_old_only(s, rr) ==
    IF rr.target \in {OLD_SYSTEM, BOTH}
    THEN << Leg(OLD_SYSTEM, s.reply_mode = DELEGATE_OLD) >>
    ELSE IF rr.target = NEW_SYSTEM
    THEN << Leg(NEW_SYSTEM, FALSE) >>
    ELSE << >>

\* forward_by_route: the calls it makes, in order
forward_by_route(s, rr) ==
    IF rr.target = OLD_SYSTEM
    THEN << Leg(OLD_SYSTEM, s.reply_mode = DELEGATE_OLD) >>
    ELSE IF rr.target = NEW_SYSTEM
    THEN << Leg(NEW_SYSTEM, FALSE) >>
    ELSE IF rr.target = BOTH
    THEN << Leg(OLD_SYSTEM, FALSE), Leg(NEW_SYSTEM, FALSE) >>
    ELSE << >>

----------------------------------------------------------------------------
(* main.py, process_event: the reply-mode step *)

\* ForwardLegs sending every event of a delegation mode to the delegate
ForwardLegsToDelegate(s, rr) ==
    IF s.reply_mode = UNIFIED
    THEN forward_by_route(s, rr)
    ELSE IF s.reply_mode = DELEGATE_OLD
    THEN << Leg(OLD_SYSTEM, TRUE) >>
    ELSE << Leg(NEW_SYSTEM, FALSE) >>

\* The forward calls of process_event for one event, in order.
ForwardLegs(s, rr) ==
    IF s.reply_mode = UNIFIED
    THEN forward_by_route(s, rr)
    ELSE IF s.reply_mode = DELEGATE_OLD
    THEN IF rr.target = OLD_SYSTEM
         THEN << Leg(OLD_SYSTEM, TRUE) >>
         ELSE << Leg(NEW_SYSTEM, FALSE) >>
    ELSE IF rr.target = NEW_SYSTEM
         THEN << Leg(NEW_SYSTEM, FALSE) >>
         ELSE << Leg(OLD_SYSTEM, FALSE) >>

\* ReplyCondition without the test of result.success
ReplyConditionAnyStatus(result, reply_token) ==
    /\ result.response_body.kind = "dict"
    /\ Truthy(result.response_body.reply_text)
    /\ Truthy(reply_token)

\* ReplyCondition without the test of reply_token
ReplyConditionAnyToken(result, reply_token) ==
    /\ result.success
    /\ result.response_body.kind = "dict"
    /\ Truthy(result.response_body.reply_text)

\* The test a result must pass for the relay to reply with it.
ReplyCondition(result, reply_token) ==
    /\ result.success
    /\ result.response_body.kind = "dict"
    /\ Truthy(result.response_body.reply_text)
    /\ Truthy(reply_token)

RECURSIVE UnifiedRepliesNoBreak(_, _)
\* UnifiedReplies without the break that ends the loop
UnifiedRepliesNoBreak(rs, reply_token) ==
    IF rs = << >>
    THEN << >>
    ELSE IF ReplyCondition(Head(rs), reply_token)
    THEN << Head(rs).response_body.reply_text >>
         \o UnifiedRepliesNoBreak(Tail(rs), reply_token)
    ELSE UnifiedRepliesNoBreak(Tail(rs), reply_token)

RECURSIVE UnifiedReplies(_, _)
\* The loop over results of the Unified branch: the texts it calls reply_text
\* with, in order (it leaves the loop after the first call).
UnifiedReplies(rs, reply_token) ==
    IF rs = << >>
    THEN << >>
    ELSE IF ReplyCondition(Head(rs), reply_token)
    THEN << Head(rs).response_body.reply_text >>
    ELSE UnifiedReplies(Tail(rs), reply_token)

\* RelayReplies with the loop of the Unified branch run in every reply mode
RelayRepliesEveryMode(s, rr, rs, reply_token) == UnifiedReplies(rs, reply_token)

\* The texts process_event calls reply_text with after the forward calls.
RelayReplies(s, rr, rs, reply_token) ==
    IF s.reply_mode = UNIFIED THEN UnifiedReplies(rs, reply_token) ELSE << >>

\* What the post of reply_messages can do.
ReplyNet == {"200", "400", "request_error"}

\* LineReplyService.reply_messages: its return value
reply_messages(s, net) == Truthy(s.line_channel_access_token) /\ net = "200"

\* What the post of send_notification can do.
NotifyNet == {"200", "500", "request_error"}

\* NotifyService.send_notification: its return value
send_notification(s, net) == Truthy(s.notify_webhook_url) /\ net = "200"

----------------------------------------------------------------------------
(* storage.py *)

\* event_id of save_event: f"{user_id}_{datetime.now().timestamp()}"
EventId(user_id, t) == <<user_id, t>>

\* datetime.now() at a save: the reading of the last save again, or a later
\* one
ClockReadings(last) == IF last = 0 THEN {1} ELSE {last, last + 1}

\* SQLiteStorage.save_event on the table rows at clock reading t, event being
\* the position in the delivery of the event saved: event_id is UNIQUE, the
\* INSERT of a row whose event_id is in the table raises IntegrityError,
\* which is caught and logged, and the table is left as it was.
\* (FirestoreStorage.save_event sets the document of that event_id and so
\* replaces the earlier one: the number of records is the same.)
save_event(rows, user_id, t, event) ==
    IF \E r \in rows : r.event_id = EventId(user_id, t)
    THEN rows
    ELSE rows \cup {[event_id |-> EventId(user_id, t), event |-> event]}

----------------------------------------------------------------------------
(* State *)

\* Nothing done yet: the calls made for the delivery, counted, and the kinds
\* of call that failed.
NoTotal ==
    [save |-> 0, notify |-> 0, old_system |-> 0, new_system |-> 0, reply |-> 0,
     failed |-> {}]

\* The state of a handler that has not received its delivery yet.
IdleTask ==
    [pc |-> "idle", body |-> [kind |-> "None", events |-> << >>],
     signature |-> NoSignature, status |-> 0, idx |-> 0, route_result |-> NoRoute,
     saved |-> None, notified |-> None, results |-> << >>, sent |-> << >>,
     replies |-> << >>, total |-> NoTotal]

\* The state of the handler that is running: the locals of webhook and
\* process_event, and what it has done.
Task ==
    [pc |-> pc, body |-> body, signature |-> signature, status |-> status,
     idx |-> idx, route_result |-> route_result, saved |-> saved,
     notified |-> notified, results |-> results, sent |-> sent,
     replies |-> replies, total |-> total]

Events == body.events

\* event: the event process_event is working on
CurrentEvent == Events[idx]

\* message_text of process_event
MessageText(event) == IF event.mtype = "text" THEN event.text ELSE NoText

Init ==
    /\ settings \in Settings
    /\ pc = "idle"
    /\ body = [kind |-> "None", events |-> << >>]
    /\ signature = NoSignature
    /\ status = 0
    /\ idx = 0
    /\ route_result = NoRoute
    /\ saved = None
    /\ notified = None
    /\ results = << >>
    /\ sent = << >>
    /\ replies = << >>
    /\ total = NoTotal
    /\ clock = 0
    /\ conversations = {}
    /\ suspended = IdleTask

\* A delivery arrives: request.body() and the signature header.
Receive ==
    /\ pc = "idle"
    /\ \E b \in Bodies :
          /\ body' = b
          /\ \E sig \in Signatures(b) : signature' = sig
    /\ pc' = "verify"
    /\ UNCHANGED <<settings, suspended, clock, conversations,
                   status, idx, route_result, saved, notified, results,
                   sent, replies, total>>

\* Verify with the failed check logged and not raised
VerifyLogOnly ==
    /\ pc = "verify"
    /\ pc' = "parse"
    /\ UNCHANGED <<settings, suspended, clock, conversations,
                   body, signature, status, idx, route_result, saved,
                   notified, results, sent, replies, total>>

\* The signature check of webhook.
Verify ==
    /\ pc = "verify"
    /\ IF /\ Truthy(settings.line_channel_secret)
          /\ signature # NoSignature
          /\ ~verify_signature(body, signature, settings.line_channel_secret)
       THEN pc' = "done" /\ status' = 403
       ELSE pc' = "parse" /\ status' = status
    /\ UNCHANGED <<settings, suspended, clock, conversations,
                   body, signature, idx, route_result, saved, notified,
                   results, sent, replies, total>>

\* json.loads and data.get("events", []) of webhook: only JSONDecodeError is
\* caught (400); the UnicodeDecodeError of json.loads and the AttributeError
\* of data.get on a value that is no dict leave the handler (500).
Parse ==
    /\ pc = "parse"
    /\ IF body.kind = "not_json"
       THEN pc' = "done" /\ status' = 400 /\ idx' = idx
       ELSE IF body.kind # "object"
       THEN pc' = "done" /\ status' = 500 /\ idx' = idx
       ELSE IF Events = << >>
       THEN pc' = "done" /\ status' = 200 /\ idx' = idx
       ELSE pc' = "route" /\ status' = status /\ idx' = 1
    /\ UNCHANGED <<settings, suspended, clock, conversations,
                   body, signature, route_result, saved, notified,
                   results, sent, replies, total>>

\* process_event, step 1: route_message
Classify ==
    /\ pc = "route"
    /\ route_result' = Route(settings, MessageText(CurrentEvent), CurrentEvent.mtype)
    /\ pc' = "save"
    /\ UNCHANGED <<settings, suspended, clock, conversations,
                   body, signature, status, idx, saved, notified,
                   results, sent, replies, total>>

\* AfterSave notifying for every result with a matched keyword
AfterSaveAnyKeyword(rr) ==
    IF rr.matched_keyword # << >> THEN "notify" ELSE "forward"

\* Where process_event goes after the save: the notification if the result
\* is high-value with a keyword, the forwarding otherwise.
AfterSave(rr) ==
    IF rr.is_high_value /\ rr.matched_keyword # << >> THEN "notify" ELSE "forward"

\* Save without the try/except: what save_conversation raises leaves the
\* handler
SaveUncaught ==
    /\ pc = "save"
    /\ \E outcome \in {"ok", "raised"} :
          /\ saved' = outcome
          /\ total' = [total EXCEPT !.save = @ + 1,
                                    !.failed = IF outcome = "raised"
                                               THEN @ \cup {"save"} ELSE @]
          /\ IF outcome = "raised"
             THEN pc' = "done" /\ status' = 500
             ELSE pc' = AfterSave(route_result) /\ status' = status
          /\ \E t \in ClockReadings(clock) :
                IF outcome = "ok"
                THEN /\ clock' = t
                     /\ conversations' =
                           save_event(conversations, CurrentEvent.userId, t, idx)
                ELSE UNCHANGED <<clock, conversations>>
    /\ UNCHANGED <<settings, suspended, body, signature, idx, route_result, notified,
                   results, sent, replies>>

\* process_event, step 2: save_conversation inside try/except Exception.
\* The call returns an event id (the row inserted, or the IntegrityError
\* swallowed), or raises (get_storage, sqlite3.connect, the Firestore
\* client) and nothing is stored.
Save ==
    /\ pc = "save"
    /\ \E outcome \in {"ok", "raised"} :
          /\ saved' = outcome
          /\ total' = [total EXCEPT !.save = @ + 1,
                                    !.failed = IF outcome = "raised"
                                               THEN @ \cup {"save"} ELSE @]
          /\ \E t \in ClockReadings(clock) :
                IF outcome = "ok"
                THEN /\ clock' = t
                     /\ conversations' =
                           save_event(conversations, CurrentEvent.userId, t, idx)
                ELSE UNCHANGED <<clock, conversations>>
    /\ pc' = AfterSave(route_result)
    /\ UNCHANGED <<settings, suspended, body, signature, status, idx, route_result, notified,
                   results, sent, replies>>

\* process_event, step 2, when the storage call does not return: the await
\* on save_conversation does not complete and process_event stays at it.
SaveNeverReturns ==
    /\ pc = "save"
    /\ saved' = "pending"
    /\ total' = [total EXCEPT !.save = @ + 1]
    /\ pc' = "saving"
    /\ UNCHANGED <<settings, suspended, clock, conversations,
                   body, signature, status, idx, route_result, notified,
                   results, sent, replies>>

\* Notify without the try/except around send_notification
NotifyUncaught ==
    /\ pc = "notify"
    /\ \E net \in IF Truthy(settings.notify_webhook_url)
                  THEN NotifyNet \cup {"raised"} ELSE {None} :
          LET r == IF net = "raised" THEN "raised"
                   ELSE IF send_notification(settings, net) THEN "True" ELSE "False"
          IN  /\ notified' = r
              /\ total' = [total EXCEPT !.notify = @ + 1,
                                        !.failed = IF r # "True"
                                                   THEN @ \cup {"notify"} ELSE @]
              /\ IF r = "raised"
                 THEN pc' = "done" /\ status' = 500
                 ELSE pc' = "forward" /\ status' = status
    /\ UNCHANGED <<settings, suspended, clock, conversations,
                   body, signature, idx, route_result, saved,
                   results, sent, replies>>

\* process_event, step 3: send_notification inside try/except Exception
Notify ==
    /\ pc = "notify"
    /\ \E net \in IF Truthy(settings.notify_webhook_url)
                  THEN NotifyNet \cup {"raised"} ELSE {None} :
          LET r == IF net = "raised" THEN "raised"
                   ELSE IF send_notification(settings, net) THEN "True" ELSE "False"
          IN  /\ notified' = r
              /\ total' = [total EXCEPT !.notify = @ + 1,
                                        !.failed = IF r # "True"
                                                   THEN @ \cup {"notify"} ELSE @]
    /\ pc' = "forward"
    /\ UNCHANGED <<settings, suspended, clock, conversations,
                   body, signature, status, idx, route_result, saved,
                   results, sent, replies>>

\* ForwardCall with a timeout or transport error of the post propagating out
\* of the forwarder and of process_event: the delivery is answered 500
ForwardCallUncaught ==
    /\ pc = "forward"
    /\ LET legs == ForwardLegs(settings, route_result)
           k == Len(results) + 1
       IN  /\ k <= Len(legs)
           /\ LET leg == legs[k]
                  posted == Truthy(UrlOf(settings, leg.target))
              IN  /\ \E net \in IF posted THEN NetOutcomes(leg.target)
                                ELSE {[kind |-> "None", status_code |-> 0, body |-> NoBody]} :
                        LET r == ForwardTo(settings, leg.target, net)
                            raised == net.kind \in {"timeout", "request_error"}
                        IN  /\ results' = IF raised THEN results ELSE Append(results, r)
                            /\ total' =
                                  [total EXCEPT
                                     ![leg.target] = IF posted THEN @ + 1 ELSE @,
                                     !.failed = IF r.success THEN @
                                                ELSE @ \cup {"forward"}]
                            /\ pc' = IF raised THEN "done"
                                     ELSE IF k = Len(legs) THEN "reply" ELSE "forward"
                            /\ status' = IF raised THEN 500 ELSE status
                  /\ sent' = Append(sent,
                        [target |-> leg.target, posted |-> posted,
                         payload |-> Payload(body, leg.include_reply_token)])
    /\ UNCHANGED <<settings, suspended, clock, conversations,
                   body, signature, idx, route_result, saved,
                   notified, replies>>

\* ForwardCall making a call that timed out a second time
ForwardCallRetry ==
    /\ pc = "forward"
    /\ LET legs == ForwardLegs(settings, route_result)
           k == Len(results) + 1
       IN  /\ k <= Len(legs)
           /\ LET leg == legs[k]
                  posted == Truthy(UrlOf(settings, leg.target))
              IN  /\ \E net \in IF posted THEN NetOutcomes(leg.target)
                                ELSE {[kind |-> "None", status_code |-> 0, body |-> NoBody]} :
                        LET r == ForwardTo(settings, leg.target, net)
                            again == net.kind = "timeout" /\ Len(sent) = Len(results)
                        IN  /\ results' = IF again THEN results ELSE Append(results, r)
                            /\ total' =
                                  [total EXCEPT
                                     ![leg.target] = IF posted THEN @ + 1 ELSE @,
                                     !.failed = IF r.success THEN @
                                                ELSE @ \cup {"forward"}]
                            /\ pc' = IF ~again /\ k = Len(legs) THEN "reply" ELSE "forward"
                  /\ sent' = Append(sent,
                        [target |-> leg.target, posted |-> posted,
                         payload |-> Payload(body, leg.include_reply_token)])
    /\ UNCHANGED <<settings, suspended, clock, conversations,
                   body, signature, status, idx, route_result, saved,
                   notified, replies>>

\* process_event, step 4: the next forward call of the event
ForwardCall ==
    /\ pc = "forward"
    /\ LET legs == ForwardLegs(settings, route_result)
           k == Len(results) + 1
       IN  /\ k <= Len(legs)
           /\ LET leg == legs[k]
                  posted == Truthy(UrlOf(settings, leg.target))
              IN  /\ \E net \in IF posted THEN NetOutcomes(leg.target)
                                ELSE {[kind |-> "None", status_code |-> 0, body |-> NoBody]} :
                        LET r == ForwardTo(settings, leg.target, net)
                        IN  /\ results' = Append(results, r)
                            /\ total' =
                                  [total EXCEPT
                                     ![leg.target] = IF posted THEN @ + 1 ELSE @,
                                     !.failed = IF r.success THEN @
                                                ELSE @ \cup {"forward"}]
                  /\ sent' = Append(sent,
                        [target |-> leg.target, posted |-> posted,
                         payload |-> Payload(body, leg.include_reply_token)])
           /\ pc' = IF k = Len(legs) THEN "reply" ELSE "forward"
    /\ UNCHANGED <<settings, suspended, clock, conversations,
                   body, signature, status, idx, route_result, saved,
                   notified, replies>>

\* process_event, step 5: the reply calls of the relay
Reply ==
    /\ pc = "reply"
    /\ LET texts == RelayReplies(settings, route_result, results, CurrentEvent.replyToken)
       IN  \E net \in IF texts = << >> THEN {None} ELSE ReplyNet :
              /\ replies' = [i \in 1..Len(texts) |->
                               [replyToken |-> CurrentEvent.replyToken,
                                text |-> texts[i],
                                ok |-> reply_messages(settings, net)]]
              /\ total' = [total EXCEPT
                              !.reply = @ + Len(texts),
                              !.failed = IF texts # << >> /\ ~reply_messages(settings, net)
                                         THEN @ \cup {"reply"} ELSE @]
    /\ pc' = "event_done"
    /\ UNCHANGED <<settings, suspended, clock, conversations,
                   body, signature, status, idx, route_result, saved,
                   notified, results, sent>>

\* NextEvent not waiting for the reply step of the event: the loop goes on
\* once the forward calls are over
NextEventBeforeReply ==
    /\ pc \in {"reply", "event_done"}
    /\ IF idx < Len(Events)
       THEN pc' = "route" /\ idx' = idx + 1 /\ status' = status
       ELSE pc' = "done" /\ idx' = idx /\ status' = 200
    /\ route_result' = NoRoute
    /\ saved' = None
    /\ notified' = None
    /\ results' = << >>
    /\ sent' = << >>
    /\ replies' = << >>
    /\ UNCHANGED <<settings, suspended, clock, conversations, body, signature, total>>

\* The for loop of webhook: the next event, or the 200 response.
NextEvent ==
    /\ pc = "event_done"
    /\ IF idx < Len(Events)
       THEN pc' = "route" /\ idx' = idx + 1 /\ status' = status
       ELSE pc' = "done" /\ idx' = idx /\ status' = 200
    /\ route_result' = NoRoute
    /\ saved' = None
    /\ notified' = None
    /\ results' = << >>
    /\ sent' = << >>
    /\ replies' = << >>
    /\ UNCHANGED <<settings, suspended, clock, conversations, body, signature, total>>

Next ==
    \/ Receive
    \/ Verify
    \/ Parse
    \/ Classify
    \/ Save
    \/ SaveNeverReturns
    \/ Notify
    \/ ForwardCall
    \/ Reply
    \/ NextEvent

Spec == Init /\ [][Next]_vars

----------------------------------------------------------------------------
(* process_event under any routing target.  route never returns BOTH, yet   *)
(* RouteTarget has it and forward_by_route handles it: here the router is   *)
(* replaced by one that may return any target, the rest of the handler      *)
(* being the same.  The deliveries are unsigned ones to a relay without a   *)
(* channel secret, and no result is high-value.                             *)

RouteResults == { RouteResult(t, "stub", FALSE, << >>) : t \in RouteTarget }

RoutedEvents ==
    { Event("U1", "text", Text(<<"hello">>), "rt1"),
      Event("U2", "text", Text(<<"hello">>), None) }

RoutedBodies ==
    { [kind |-> "object", events |-> es] : es \in SeqsUpTo(RoutedEvents, MaxEvents) }

InitRouted ==
    /\ Init
    /\ settings.line_channel_secret = ""
    /\ settings.notify_webhook_url = ""

\* A delivery without signature header arrives.
ReceiveRouted ==
    /\ pc = "idle"
    /\ body' \in RoutedBodies
    /\ signature' = NoSignature
    /\ pc' = "verify"
    /\ UNCHANGED <<settings, suspended, clock, conversations,
                   status, idx, route_result, saved, notified, results,
                   sent, replies, total>>

\* process_event, step 1, with a router that returns any target
ClassifyAny ==
    /\ pc = "route"
    /\ route_result' \in RouteResults
    /\ pc' = "save"
    /\ UNCHANGED <<settings, suspended, clock, conversations,
                   body, signature, status, idx, saved, notified,
                   results, sent, replies, total>>

NextRouted ==
    \/ ReceiveRouted
    \/ Verify
    \/ Parse
    \/ ClassifyAny
    \/ Save
    \/ SaveNeverReturns
    \/ ForwardCall
    \/ Reply
    \/ NextEvent

SpecRouted == InitRouted /\ [][NextRouted]_vars

----------------------------------------------------------------------------
(* The classifier on its own: route applied to one event, under keyword    *)
(* configurations that differ in order, blanks and empty items, and to     *)
(* message texts of every content up to MaxTextLen; process_event then     *)
(* goes on with the decision as in a delivery of that one event.           *)

\* Values of OLD_SYSTEM_KEYWORDS
OldSystemKeywordsValues ==
    { <<"invoice", ",", "address">>,
      <<"address", ",", "invoice">>,
      <<" ", "invoice", " ", ",", ",", "address", ",">>,
      << >> }

\* Values of HIGH_VALUE_KEYWORDS
HighValueKeywordsValues ==
    { <<"open", "company", ",", "startup">>,
      <<"open", ",", "open", "company">>,
      <<"open", "company", ",", " ", "open">> }

ClassifierSettings ==
    [reply_mode : {UNIFIED},
     line_channel_secret : {""},
     line_channel_access_token : {"token"},
     old_system_webhook_url : {"http://old"},
     new_system_webhook_url : {"http://new"},
     notify_webhook_url : {""},
     old_system_keywords : OldSystemKeywordsValues,
     high_value_keywords : HighValueKeywordsValues]

\* The characters of the message texts
TextSymbols == {"invoice", "address", "open", "company"}

\* message.text of an event: absent, or a text
Texts == {NoText} \cup { Text(ws) : ws \in SeqsUpTo(TextSymbols, MaxTextLen) }

ClassifierEvents ==
    { Event("U1", mtype, text, "rt1") : mtype \in {"text", "sticker"}, text \in Texts }

InitClassifier ==
    /\ settings \in ClassifierSettings
    /\ pc = "route"
    /\ body \in { [kind |-> "object", events |-> << e >>] : e \in ClassifierEvents }
    /\ signature = NoSignature
    /\ status = 0
    /\ idx = 1
    /\ route_result = NoRoute
    /\ saved = None
    /\ notified = None
    /\ results = << >>
    /\ sent = << >>
    /\ replies = << >>
    /\ total = NoTotal
    /\ clock = 0
    /\ conversations = {}
    /\ suspended = IdleTask

\* route_message called with the text field and the type of the message as
\* they are
route_message ==
    /\ pc = "route"
    /\ route_result' = Route(settings, CurrentEvent.text, CurrentEvent.mtype)
    /\ pc' = "routed"
    /\ UNCHANGED <<settings, suspended, clock, conversations,
                   body, signature, status, idx, saved, notified,
                   results, sent, replies, total>>

NextClassifier ==
    \/ Classify
    \/ route_message
    \/ Save
    \/ SaveNeverReturns
    \/ Notify
    \/ ForwardCall
    \/ Reply
    \/ NextEvent

SpecClassifier == InitClassifier /\ [][NextClassifier]_vars

----------------------------------------------------------------------------
(* Two deliveries at once.  Each request is a task of the event loop with  *)
(* its own locals; the tasks share the settings, the service singletons    *)
(* (which keep no state of a request) and the store.  One task runs, the   *)
(* other is suspended at an await, and the loop may resume the other one   *)
(* between any two steps.                                                  *)

ConcurrentSettings ==
    [reply_mode |-> UNIFIED,
     line_channel_secret |-> "",
     line_channel_access_token |-> "token",
     old_system_webhook_url |-> "http://old",
     new_system_webhook_url |-> "http://new",
     notify_webhook_url |-> "http://notify",
     old_system_keywords |-> OldSystemKeywords,
     high_value_keywords |-> HighValueKeywords]

ConcurrentBodies ==
    { [kind |-> "object",
       events |-> << Event("U1", "text", Text(<<"need", "invoice">>), "rt1") >>],
      [kind |-> "object",
       events |-> << Event("U1", "text", Text(<<"open", "company">>), "rt2") >>] }

InitConcurrent ==
    /\ Init
    /\ settings = ConcurrentSettings

\* A delivery of one event, without signature header, arrives.
ReceiveConcurrent ==
    /\ pc = "idle"
    /\ body' \in ConcurrentBodies
    /\ signature' = NoSignature
    /\ pc' = "verify"
    /\ UNCHANGED <<settings, suspended, clock, conversations,
                   status, idx, route_result, saved, notified, results,
                   sent, replies, total>>

\* Switch with the forward outcomes kept in a place the two tasks share
SwitchSharedResults ==
    /\ pc' = suspended.pc
    /\ body' = suspended.body
    /\ signature' = suspended.signature
    /\ status' = suspended.status
    /\ idx' = suspended.idx
    /\ route_result' = suspended.route_result
    /\ saved' = suspended.saved
    /\ notified' = suspended.notified
    /\ results' = results
    /\ sent' = suspended.sent
    /\ replies' = suspended.replies
    /\ total' = suspended.total
    /\ suspended' = Task
    /\ UNCHANGED <<settings, clock, conversations>>

\* The event loop suspends the running task and resumes the other one: the
\* locals of the handler are those of the task resumed.
Switch ==
    /\ pc' = suspended.pc
    /\ body' = suspended.body
    /\ signature' = suspended.signature
    /\ status' = suspended.status
    /\ idx' = suspended.idx
    /\ route_result' = suspended.route_result
    /\ saved' = suspended.saved
    /\ notified' = suspended.notified
    /\ results' = suspended.results
    /\ sent' = suspended.sent
    /\ replies' = suspended.replies
    /\ total' = suspended.total
    /\ suspended' = Task
    /\ UNCHANGED <<settings, clock, conversations>>

NextConcurrent ==
    \/ ReceiveConcurrent
    \/ Verify
    \/ Parse
    \/ Classify
    \/ Save
    \/ SaveNeverReturns
    \/ Notify
    \/ ForwardCall
    \/ Reply
    \/ NextEvent
    \/ Switch

SpecConcurrent == InitConcurrent /\ [][NextConcurrent]_vars

----------------------------------------------------------------------------
(* Properties *)

\* process_event is working on event idx.
InEvent == pc \in {"route", "save", "notify", "forward", "reply", "event_done"}

\* The forward calls of the current event are over.
Forwarded == pc \in {"reply", "event_done"}

ReplyToken == CurrentEvent.replyToken

\* The texts of the reply calls of the current event, in order.
ReplyTexts == [i \in 1..Len(replies) |-> replies[i].text]

HighValue(rr) == rr.is_high_value /\ rr.matched_keyword # << >>

\* The signature check of the delivery fails: a secret is configured and the
\* header is there and is not the HMAC of the body.
SignatureFails ==
    /\ Truthy(settings.line_channel_secret)
    /\ signature # NoSignature
    /\ signature # Hmac(settings.line_channel_secret, body)

\* A successful outcome with a structured body that has the reply-text field.
HasReplyField(r) ==
    r.success /\ r.response_body.kind = "dict" /\ r.response_body.reply_text # None

\* A successful outcome with a structured body whose reply text is not empty.
HasReplyText(r) ==
    r.success /\ r.response_body.kind = "dict" /\ r.response_body.reply_text \notin {None, ""}

\* The reply text of the first outcome of rs that satisfies Q, as the
\* sequence of texts to send (none when no outcome satisfies Q).
FirstReply(rs, Q(_)) ==
    IF \E i \in 1..Len(rs) : Q(rs[i])
    THEN LET k == CHOOSE i \in 1..Len(rs) :
                     Q(rs[i]) /\ \A j \in 1..(i - 1) : ~Q(rs[j])
         IN  << rs[k].response_body.reply_text >>
    ELSE << >>

\* C1: for every event, whatever the reply mode and the forward outcomes, at
\* most one reply call is made, with the token of that event, also when that
\* call fails; so a delivery has at most as many reply calls as events
\* processed.
C1_AtMostOneReplyPerEvent ==
    /\ Len(replies) <= 1
    /\ \A i \in 1..Len(replies) : replies[i].replyToken = ReplyToken
    /\ total.reply <= idx

\* C1, its case: both backends answered with a reply text, the reply call
\* made for the first failed, and no second call was made.
C1_Witness ==
    /\ pc = "event_done"
    /\ Len(results) = 2
    /\ HasReplyText(results[1])
    /\ HasReplyText(results[2])
    /\ Len(replies) = 1
    /\ ~replies[1].ok

\* C2 as stated: in mode Unified with a reply token, the reply sent for an
\* event is the reply-text field of the first outcome that is successful,
\* structured and contains the field, and nothing else is sent.
C2_FirstOutcomeWithField ==
    (pc = "event_done" /\ settings.reply_mode = UNIFIED /\ Truthy(ReplyToken))
        => ReplyTexts = FirstReply(results, HasReplyField)

\* C2 amended: in mode Unified with a reply token, the reply sent for an
\* event is the reply text of the first outcome, in forwarding order, that
\* is successful, structured and has a non-empty reply text; no later
\* outcome is used and nothing is sent when there is no such outcome.
C2_FirstOutcomeWithText ==
    (pc = "event_done" /\ settings.reply_mode = UNIFIED /\ Truthy(ReplyToken))
        => ReplyTexts = FirstReply(results, HasReplyText)

\* C2, its case: old answered A, new answered B, and only A was sent.
C2_Witness ==
    /\ pc = "event_done"
    /\ settings.reply_mode = UNIFIED
    /\ Len(results) = 2
    /\ HasReplyText(results[1])
    /\ HasReplyText(results[2])
    /\ results[1].response_body.reply_text = "A"
    /\ results[2].response_body.reply_text = "B"
    /\ ReplyTexts = << "A" >>

\* C3: an event without reply token gets no reply call, in any mode and for
\* any outcomes; so a delivery has at most as many reply calls as processed
\* events with a token.
C3_NoTokenNoReply ==
    /\ (InEvent /\ ~Truthy(ReplyToken)) => replies = << >>
    /\ total.reply <= Cardinality({ i \in 1..idx : Truthy(Events[i].replyToken) })

\* C3, its case: an event without token whose backend answered with a reply
\* text, in mode Unified, finished without reply call.
C3_Witness ==
    /\ pc = "event_done"
    /\ ~Truthy(ReplyToken)
    /\ settings.reply_mode = UNIFIED
    /\ Len(results) = 1
    /\ HasReplyText(results[1])
    /\ replies = << >>

\* C4: when the storage write of an event raises, the decision is still the
\* one the router gave, the handler goes on to the notification (for a
\* high-value decision) and makes every forward call of the decision, and
\* the delivery is answered 200 as it is without failure.
C4_SaveFailureIsolated ==
    /\ (InEvent /\ saved = "raised") =>
          /\ route_result = Route(settings, MessageText(CurrentEvent), CurrentEvent.mtype)
          /\ pc \in {"notify", "forward", "reply", "event_done"}
          /\ (HighValue(route_result) /\ pc # "notify") => notified # None
          /\ Forwarded =>
                /\ sent # << >>
                /\ Len(sent) = Len(ForwardLegs(settings, route_result))
    /\ "save" \in total.failed =>
          /\ status \in {0, 200}
          /\ pc = "done" => status = 200

\* C4, its case: the write of a high-value event raised, the notification
\* was sent and the event was posted to its backend.
C4_Witness ==
    /\ pc = "event_done"
    /\ saved = "raised"
    /\ HighValue(route_result)
    /\ notified = "True"
    /\ Len(sent) = 1
    /\ sent[1].posted

\* The reply calls the relay owes an event, from its outcomes alone.
RepliesOwed ==
    IF settings.reply_mode = UNIFIED /\ Truthy(ReplyToken)
    THEN FirstReply(results, HasReplyText)
    ELSE << >>

\* C5: when the notification of a high-value event returns false or raises,
\* the decision is unchanged, every forward call of the decision is made,
\* the reply calls are those the outcomes call for, and the delivery is
\* answered 200 as it is without failure.
C5_NotifyFailureIsolated ==
    /\ (InEvent /\ notified \in {"False", "raised"}) =>
          /\ route_result = Route(settings, MessageText(CurrentEvent), CurrentEvent.mtype)
          /\ pc \in {"forward", "reply", "event_done"}
          /\ Forwarded =>
                /\ sent # << >>
                /\ Len(sent) = Len(ForwardLegs(settings, route_result))
          /\ pc = "event_done" => ReplyTexts = RepliesOwed
    /\ "notify" \in total.failed =>
          /\ status \in {0, 200}
          /\ pc = "done" => status = 200

\* C5, its case: the notification raised, the event was posted to its
\* backend and the relay replied with the backend's text.
C5_Witness ==
    /\ pc = "event_done"
    /\ notified = "raised"
    /\ Len(sent) = 1
    /\ sent[1].posted
    /\ Len(replies) = 1

\* C6 as stated: a delivery that passes the signature check and whose body
\* is valid JSON is answered 200.
C6_ValidDeliveryAnswered200 ==
    (pc = "done" /\ ~SignatureFails /\ body.kind \in {"json_array", "object"})
        => status = 200

\* C7 as stated: with a channel secret configured, an event is processed
\* only if the delivery carries a signature that verifies against the body.
C7_ProcessedOnlyIfVerified ==
    (Truthy(settings.line_channel_secret) /\ InEvent)
        => signature = Hmac(settings.line_channel_secret, body)

\* C8: a delivery whose signature check fails is answered 403 and one whose
\* body is not JSON is answered 400, the signature being checked first; for
\* neither (nor for any delivery whose body holds no events object) is any
\* event processed nor any write, notification, forward call or reply call
\* made.
C8_RejectedNoSideEffects ==
    /\ (pc # "idle" /\ SignatureFails) =>
          /\ idx = 0 /\ total = NoTotal
          /\ pc = "done" => status = 403
    /\ (pc # "idle" /\ ~SignatureFails /\ body.kind = "not_json") =>
          /\ idx = 0 /\ total = NoTotal
          /\ pc = "done" => status = 400
    /\ (status \in {400, 403} \/ body.kind # "object") =>
          /\ idx = 0 /\ total = NoTotal
          /\ saved = None /\ notified = None
          /\ results = << >> /\ sent = << >> /\ replies = << >>

\* C8, its case: a delivery of events with a bad signature was answered 403.
C8_Witness ==
    /\ pc = "done"
    /\ status = 403
    /\ Len(Events) > 0
    /\ total = NoTotal

\* The decision sends the event to a backend other than the delegate of the
\* reply mode.
NotTheDelegate ==
    \/ settings.reply_mode = DELEGATE_OLD /\ route_result.target \in {NEW_SYSTEM, BOTH}
    \/ settings.reply_mode = DELEGATE_NEW /\ route_result.target \in {OLD_SYSTEM, BOTH}

\* C9 as stated: in a delegation mode, for an event routed to a backend that
\* is not the delegate and carrying a reply token, the relay replies with the
\* reply text of the first successful structured outcome, as in mode Unified.
C9_RelayRepliesForNonDelegate ==
    (pc = "event_done" /\ NotTheDelegate /\ Truthy(ReplyToken))
        => ReplyTexts = FirstReply(results, HasReplyText)

\* C10: in mode DelegateOld, an event routed to OldSystem is handed to
\* forward_to_old_system once, the post (made when the URL is configured)
\* carrying the body with the event's reply token in it, and the relay makes
\* no reply call for the event whatever the backend answers.
C10_DelegateOldHandsOver ==
    (InEvent /\ settings.reply_mode = DELEGATE_OLD /\ route_result.target = OLD_SYSTEM) =>
        /\ replies = << >>
        /\ Forwarded =>
              /\ Len(sent) = 1
              /\ sent[1].target = OLD_SYSTEM
              /\ sent[1].posted = Truthy(settings.old_system_webhook_url)
              /\ sent[1].payload.kind = "object"
              /\ Len(sent[1].payload.events) >= idx
              /\ sent[1].payload.events[idx].replyToken = ReplyToken

\* C10, its case: the old backend got the event with its token, answered
\* with a reply text, and the relay made no reply call.
C10_Witness ==
    /\ pc = "event_done"
    /\ settings.reply_mode = DELEGATE_OLD
    /\ route_result.target = OLD_SYSTEM
    /\ Truthy(ReplyToken)
    /\ sent[1].posted
    /\ HasReplyText(results[1])
    /\ replies = << >>

\* The backends the forward calls of the current event went to, in order.
SentTargets == [k \in 1..Len(sent) |-> sent[k].target]

C12_BothGivesTwoOutcomes ==
    (Forwarded /\ settings.reply_mode = UNIFIED /\ route_result.target = BOTH)
        => /\ Len(results) = 2
           /\ results[1].target = OLD_SYSTEM
           /\ results[2].target = NEW_SYSTEM
           /\ SentTargets = << OLD_SYSTEM, NEW_SYSTEM >>
           /\ sent[1].posted = Truthy(settings.old_system_webhook_url)
           /\ sent[2].posted = Truthy(settings.new_system_webhook_url)

\* C12, its case: the old-system call timed out and the new-system call was
\* made all the same and succeeded.
C12_Witness ==
    /\ Forwarded
    /\ settings.reply_mode = UNIFIED
    /\ route_result.target = BOTH
    /\ results[1].error = "timeout"
    /\ sent[2].posted
    /\ results[2].success

\* C16: a forward call that times out or fails in transport gives an outcome
\* with success false and an error, nothing is raised out of the forwarder:
\* every call of the decision still gives its outcome, the event is processed
\* to its end, and the delivery goes on to be answered 200.
C16_ForwardFailureContained ==
    /\ InEvent =>
          \A k \in 1..Len(results) :
              results[k].error \in {"timeout", "request_error"} =>
                  /\ ~results[k].success
                  /\ results[k].status_code = 0
                  /\ results[k].response_body = NoBody
    /\ Forwarded => Len(results) = Len(ForwardLegs(settings, route_result))
    /\ "forward" \in total.failed => status \in {0, 200}
    /\ (pc = "done" /\ "forward" \in total.failed) => status = 200

\* C16, its case: the first call of a two-call decision timed out, the
\* second was made and answered, and its reply text was sent.
C16_Witness ==
    /\ pc = "event_done"
    /\ Len(results) = 2
    /\ results[1].error = "timeout"
    /\ HasReplyText(results[2])
    /\ Len(replies) = 1
    /\ replies[1].ok
    /\ status = 0

\* The URL configured for a backend, read from the settings.
ConfiguredUrl(target) ==
    IF target = OLD_SYSTEM THEN settings.old_system_webhook_url
    ELSE settings.new_system_webhook_url

\* C17: a forward call to a backend whose URL is not configured makes no
\* network call and gives a failed outcome with no response; no post is ever
\* made to such a backend, and a reply sent for the event is the reply text
\* of an outcome of a configured backend.
C17_UnconfiguredFailsAtOnce ==
    /\ InEvent =>
          \A k \in 1..Len(results) :
              ~Truthy(ConfiguredUrl(sent[k].target)) =>
                  /\ ~sent[k].posted
                  /\ ~results[k].success
                  /\ results[k].status_code = 0
                  /\ results[k].response_body = NoBody
                  /\ Truthy(results[k].error)
    /\ ~Truthy(settings.old_system_webhook_url) => total.old_system = 0
    /\ ~Truthy(settings.new_system_webhook_url) => total.new_system = 0
    /\ InEvent =>
          \A i \in 1..Len(replies) :
              \E k \in 1..Len(results) :
                  /\ Truthy(ConfiguredUrl(results[k].target))
                  /\ HasReplyText(results[k])
                  /\ replies[i].text = results[k].response_body.reply_text

\* C17, its case: target Both with the old-system URL not configured; the
\* old-system outcome failed without a post, and the reply sent is the
\* new-system one.
C17_Witness ==
    /\ pc = "event_done"
    /\ ~Truthy(settings.old_system_webhook_url)
    /\ Len(results) = 2
    /\ ~sent[1].posted
    /\ results[1].error = "not_configured"
    /\ ReplyTexts = << ReplyTextOf(NEW_SYSTEM) >>

C19_EveryEventStored ==
    /\ (InEvent /\ saved = "ok") => \E r \in conversations : r.event = idx
    /\ ("save" \notin total.failed /\ saved # "pending")
          => Cardinality(conversations) = total.save

\* C20 as stated: persistence is detached, forwarding does not wait for it:
\* while a storage call has not returned, the forward calls of the event
\* have been made or the handler can go on towards them.
C20_ForwardingDoesNotWait ==
    saved = "pending" => (Forwarded \/ ENABLED Notify \/ ENABLED ForwardCall)

\* The classifier has returned: from process_event, or called directly.
Classified == pc \in {"save", "routed"}

\* The text of the current event is a text message's.
IsText == CurrentEvent.mtype = "text" /\ CurrentEvent.text.present

\* Some keyword of the list is in the text of the current event.
SomeKeywordIn(keywords) ==
    \E k \in 1..Len(keywords) : Contains(CurrentEvent.text.words, keywords[k])

\* kw is the first keyword of the list, in list order, that is in the text
\* of the current event.
FirstInListOrder(keywords, kw) ==
    \E k \in 1..Len(keywords) :
        /\ keywords[k] = kw
        /\ Contains(CurrentEvent.text.words, kw)
        /\ \A j \in 1..(k - 1) : ~Contains(CurrentEvent.text.words, keywords[j])

\* C13: a text message whose text contains an old-system keyword and a
\* high-value keyword is classified OldSystem, not high-value, the matched
\* keyword being an old-system keyword of the text, wherever the keywords
\* stand in the text.
C13_OldKeywordWins ==
    (Classified /\ IsText /\ SomeKeywordIn(old_keywords_list(settings))
                /\ SomeKeywordIn(high_value_keywords_list(settings)))
        => /\ route_result.target = OLD_SYSTEM
           /\ ~route_result.is_high_value
           /\ \E k \in 1..Len(old_keywords_list(settings)) :
                 route_result.matched_keyword = old_keywords_list(settings)[k]
           /\ Contains(CurrentEvent.text.words, route_result.matched_keyword)

\* C13, its case: the high-value keyword stands first in the text, the
\* old-system keyword after it, and the event went to the old system.
C13_Witness ==
    /\ pc = "save"
    /\ CurrentEvent.mtype = "text"
    /\ CurrentEvent.text = Text(<<"open", "company", "invoice">>)
    /\ high_value_keywords_list(settings)[1] = <<"open", "company">>
    /\ route_result.target = OLD_SYSTEM
    /\ route_result.matched_keyword = <<"invoice">>

\* C14: an event whose message type is not text, or whose text is absent, is
\* classified NewSystem, not high-value, without matched keyword, whatever
\* the keyword lists and whatever text field it carries.
C14_NonTextToNewSystem ==
    (Classified /\ ~IsText)
        => /\ route_result.target = NEW_SYSTEM
           /\ ~route_result.is_high_value
           /\ route_result.matched_keyword = << >>

\* C14, its case: a sticker message carrying a text field with an old-system
\* keyword in it, given to the classifier as it is.
C14_Witness ==
    /\ pc = "routed"
    /\ CurrentEvent.mtype = "sticker"
    /\ CurrentEvent.text.present
    /\ SomeKeywordIn(old_keywords_list(settings))
    /\ route_result.target = NEW_SYSTEM

\* The keywords joined by commas, as a configuration value.
RECURSIVE JoinKeywords(_)
JoinKeywords(keywords) ==
    IF keywords = << >> THEN << >>
    ELSE IF Len(keywords) = 1 THEN keywords[1]
    ELSE keywords[1] \o <<",">> \o JoinKeywords(Tail(keywords))

\* The list with the keywords at i and j swapped.
Swapped(keywords, i, j) ==
    [k \in 1..Len(keywords) |->
        IF k = i THEN keywords[j] ELSE IF k = j THEN keywords[i] ELSE keywords[k]]

\* C15: the matched keyword is the first keyword, in the order of the
\* configured list, that is a substring of the text; and when two different
\* keywords of the old-system list are in the text and one of them is the
\* one reported, the configuration with the two swapped reports the other.
C15_FirstInListOrder ==
    (Classified /\ IsText) =>
        /\ SomeKeywordIn(old_keywords_list(settings))
              => /\ route_result.target = OLD_SYSTEM
                 /\ FirstInListOrder(old_keywords_list(settings),
                                     route_result.matched_keyword)
        /\ route_result.is_high_value
              => FirstInListOrder(high_value_keywords_list(settings),
                                  route_result.matched_keyword)
        /\ LET old == old_keywords_list(settings)
           IN  \A i, j \in 1..Len(old) :
                  (/\ i < j
                   /\ old[i] # old[j]
                   /\ route_result.matched_keyword = old[i]
                   /\ Contains(CurrentEvent.text.words, old[j]))
                     => Route([settings EXCEPT !.old_system_keywords =
                                   JoinKeywords(Swapped(old, i, j))],
                              CurrentEvent.text, "text").matched_keyword = old[j]

\* C15, its case: the text has "address" before "invoice", the list has
\* "invoice" before "address" (written with blanks and empty items), and
\* "invoice" is reported.
C15_Witness ==
    /\ pc = "save"
    /\ settings.old_system_keywords = <<" ", "invoice", " ", ",", ",", "address", ",">>
    /\ CurrentEvent.mtype = "text"
    /\ CurrentEvent.text = Text(<<"address", "invoice">>)
    /\ route_result.matched_keyword = <<"invoice">>

\* The order of the steps of process_event, as pairs of positions: route,
\* save, notify (high-value events only), forward, reply, and then the next
\* event or the response.
StepOrder ==
    { <<"route", "save">>, <<"save", "notify">>, <<"save", "forward">>,
      <<"save", "saving">>, <<"notify", "forward">>, <<"forward", "reply">>,
      <<"reply", "event_done">>, <<"event_done", "route">>,
      <<"event_done", "done">> }

\* C21: the events of a delivery are processed in array order, one after
\* another: the handler moves to event i+1 only from the end of event i, all
\* of whose steps are then over, and within an event the steps come in the
\* order classify, persist, notify, forward, reply, each step acting only
\* at its own position.
C21_EventsInOrder ==
    [][ /\ idx' # idx =>
              /\ idx' = idx + 1
              /\ pc \in {"parse", "event_done"}
              /\ pc' = "route"
        /\ (InEvent /\ pc' # pc) => <<pc, pc'>> \in StepOrder
        /\ (InEvent /\ pc # "event_done") =>
              /\ route_result' # route_result => pc = "route"
              /\ saved' # saved => pc = "save"
              /\ notified' # notified => pc = "notify"
              /\ (results' # results \/ sent' # sent) => pc = "forward"
              /\ replies' # replies => pc = "reply"
        /\ (pc = "event_done" /\ idx' # idx) =>
              /\ saved # None
              /\ HighValue(route_result) => notified # None
              /\ Len(results) = Len(ForwardLegs(settings, route_result))
              /\ Len(replies) =
                    Len(RelayReplies(settings, route_result, results, ReplyToken))
      ]_vars

\* C21, its case: the second event of a delivery is at its end, a high-value
\* event that was saved, notified, forwarded and replied to, after the first
\* event was saved.
C21_Witness ==
    /\ pc = "event_done"
    /\ idx = 2
    /\ total.save = 2
    /\ saved = "ok"
    /\ notified = "True"
    /\ Len(results) = 1
    /\ Len(replies) = 1

\* The number of forward calls of the current event made to a backend.
CallsTo(target) == Cardinality({ k \in 1..Len(sent) : sent[k].target = target })

\* C22: for every event, in every reply mode, each backend is called at most
\* once, a call that failed or timed out being followed by no further call
\* to that backend; the reply API and the notification webhook are called at
\* most once for the event as well.  So a delivery makes at most as many
\* calls of each kind as it has processed events.
C22_EachCallAtMostOnce ==
    /\ InEvent =>
          /\ CallsTo(OLD_SYSTEM) <= 1
          /\ CallsTo(NEW_SYSTEM) <= 1
          /\ Len(sent) = Len(results)
          /\ Len(replies) <= 1
    /\ total.old_system <= idx
    /\ total.new_system <= idx
    /\ total.notify <= idx
    /\ total.reply <= idx
    /\ total.save <= idx

\* C22, its case: the notification of a high-value event failed and its
\* forward call timed out; one call of each was made and the event is over.
C22_Witness ==
    /\ pc = "event_done"
    /\ idx = 1
    /\ notified = "False"
    /\ Truthy(settings.notify_webhook_url)
    /\ results[1].error = "timeout"
    /\ Len(sent) = 1
    /\ total.notify = 1
    /\ total.old_system + total.new_system = 1

\* C23: in every reply mode, an event whose decision is OldSystem is
\* forwarded to the old backend and not to the new one, and an event whose
\* decision is NewSystem is forwarded to the new backend and not to the old
\* one.
C23_ForwardedToItsTarget ==
    /\ (InEvent /\ route_result.target = OLD_SYSTEM) =>
          /\ CallsTo(NEW_SYSTEM) = 0
          /\ Forwarded => SentTargets = << OLD_SYSTEM >>
    /\ (InEvent /\ route_result.target = NEW_SYSTEM) =>
          /\ CallsTo(OLD_SYSTEM) = 0
          /\ Forwarded => SentTargets = << NEW_SYSTEM >>

\* C23, its case: mode DelegateOld and an event decided for the new system;
\* the post went to the new backend.
C23_Witness ==
    /\ Forwarded
    /\ settings.reply_mode = DELEGATE_OLD
    /\ route_result.target = NEW_SYSTEM
    /\ SentTargets = << NEW_SYSTEM >>
    /\ sent[1].posted

\* The events of the delivery, up to the current one, whose decision is
\* high-value with a matched keyword.
HighValueEvents ==
    { i \in 1..idx :
        HighValue(Route(settings, MessageText(Events[i]), Events[i].mtype)) }

\* C24: send_notification is called for an event if and only if its decision
\* is high-value with a matched keyword (and makes a post only when the
\* notification URL is configured); such a decision has target NewSystem, so
\* no notification is made for an event routed to OldSystem or for an event
\* that is no text message; and at most one is made per event.
C24_NotifiedIffHighValue ==
    /\ (InEvent /\ pc \in {"route", "save", "notify"}) => notified = None
    /\ (InEvent /\ pc \in {"forward", "reply", "event_done"}) =>
          (notified # None <=> HighValue(route_result))
    /\ (InEvent /\ HighValue(route_result)) =>
          /\ route_result.target = NEW_SYSTEM
          /\ IsText
    /\ (InEvent /\ (route_result.target = OLD_SYSTEM \/ ~IsText)) =>
          /\ pc # "notify"
          /\ notified = None
    /\ InEvent => total.notify <= Cardinality(HighValueEvents)
    /\ ~Truthy(settings.notify_webhook_url) => notified \in {None, "False"}

\* C24, its case: a high-value event has been notified and is about to be
\* forwarded to the new system, after an earlier event of the delivery, with
\* an old-system keyword, for which no notification was made.
C24_Witness ==
    /\ pc = "forward"
    /\ idx = 2
    /\ HighValue(route_result)
    /\ notified = "True"
    /\ total.notify = 1
    /\ Route(settings, MessageText(Events[1]), Events[1].mtype).target = OLD_SYSTEM

\* C25: the decision of an event received through the webhook is OldSystem
\* or NewSystem, never Both, whatever the text, the message type and the
\* keyword lists; so the forward calls of an event go to one backend.
C25_NeverBoth ==
    /\ (Classified \/ (InEvent /\ pc # "route")) =>
          route_result.target \in {OLD_SYSTEM, NEW_SYSTEM}
    /\ InEvent => Len(sent) <= 1
    /\ InEvent => ~(CallsTo(OLD_SYSTEM) > 0 /\ CallsTo(NEW_SYSTEM) > 0)

\* C25, its case: a text with an old-system keyword and a high-value keyword
\* was classified and forwarded, by one call, to the old system.
C25_Witness ==
    /\ Forwarded
    /\ IsText
    /\ SomeKeywordIn(old_keywords_list(settings))
    /\ SomeKeywordIn(high_value_keywords_list(settings))
    /\ SentTargets = << OLD_SYSTEM >>

\* The first n events of the delivery whose decision is the target.
RoutedTo(target, n) ==
    { i \in 1..n :
        Route(settings, MessageText(Events[i]), Events[i].mtype).target = target }

\* The number of events of the delivery whose forward calls are over.
EventsForwarded == IF Forwarded THEN idx ELSE idx - 1

\* C27: a forward call is made once per event and carries the whole body of
\* the delivery: every post has all the events of the delivery in it, and
\* the number of posts a (configured) backend has received is the number of
\* events forwarded so far whose decision is that backend; at the end of a
\* delivery, the number of its events routed to the backend.
C27_WholeBodyPerEvent ==
    /\ InEvent =>
          \A k \in 1..Len(sent) :
              /\ sent[k].payload.kind = "object"
              /\ sent[k].payload.events = Events
    /\ \A t \in {OLD_SYSTEM, NEW_SYSTEM} :
          /\ InEvent =>
                total[t] = IF Truthy(ConfiguredUrl(t))
                           THEN Cardinality(RoutedTo(t, EventsForwarded)) ELSE 0
          /\ (pc = "done" /\ status = 200) =>
                total[t] = IF Truthy(ConfiguredUrl(t))
                           THEN Cardinality(RoutedTo(t, Len(Events))) ELSE 0

\* C27, its case: a delivery of two events, the first routed to the old
\* system and the second to the new one; each backend got one post, and the
\* post to the new backend has the first event, with its reply token, in it.
C27_Witness ==
    /\ pc = "event_done"
    /\ idx = 2
    /\ RoutedTo(OLD_SYSTEM, 2) = {1}
    /\ total.old_system = 1
    /\ total.new_system = 1
    /\ sent[1].target = NEW_SYSTEM
    /\ sent[1].posted
    /\ sent[1].payload.events[1] = Events[1]
    /\ Truthy(Events[1].replyToken)

\* What a task t has done for its current event is what the event, the
\* settings and the outcomes of the task's own calls determine: the decision
\* is that of the event's text, the forward calls are those of the decision
\* and carry the task's body, each outcome is that of the call made, and the
\* reply is the one the task's outcomes give, with the event's token.
OwnWork(t) ==
    t.pc \in {"route", "save", "notify", "forward", "reply", "event_done"} =>
        LET e == t.body.events[t.idx]
            rr == Route(settings, MessageText(e), e.mtype)
            legs == ForwardLegs(settings, rr)
        IN  /\ t.route_result = IF t.pc = "route" THEN NoRoute ELSE rr
            /\ Len(t.sent) <= Len(legs)
            /\ Len(t.results) = Len(t.sent)
            /\ \A k \in 1..Len(t.sent) :
                  /\ t.sent[k].target = legs[k].target
                  /\ t.sent[k].payload = t.body
                  /\ t.results[k].target = legs[k].target
            /\ t.pc \in {"reply", "event_done"} => Len(t.sent) = Len(legs)
            /\ t.pc # "event_done" => t.replies = << >>
            /\ t.pc = "event_done" =>
                  /\ [i \in 1..Len(t.replies) |-> t.replies[i].text]
                        = RelayReplies(settings, rr, t.results, e.replyToken)
                  /\ \A i \in 1..Len(t.replies) :
                        t.replies[i].replyToken = e.replyToken

\* C26: in every interleaving of two deliveries, the decision, the forward
\* calls and the reply of each delivery's event are those of that delivery
\* alone: the reply has the event's own token and the text of the event's
\* own forward outcome.
C26_DeliveriesIndependent == OwnWork(Task) /\ OwnWork(suspended)

\* C26, its case: one delivery has replied to its event with the text of the
\* new system while the other, of another event, is suspended before its
\* reply step holding an old-system outcome with a reply text.
C26_Witness ==
    /\ pc = "event_done"
    /\ Len(replies) = 1
    /\ replies[1].replyToken = "rt2"
    /\ replies[1].text = ReplyTextOf(NEW_SYSTEM)
    /\ suspended.pc = "reply"
    /\ suspended.body # body
    /\ HasReplyText(suspended.results[1])
    /\ suspended.results[1].target = OLD_SYSTEM
====
